---- MODULE Spec2Model ----
(***************************************************************************)
(* Model of scrape.mjs, the release-notes scraper.                         *)
(*                                                                         *)
(* Text is modelled at token level: an HTML fragment is a sequence of      *)
(* strings, each either a tag ("<ul>", "</li>", "<p>", ...) or a piece of   *)
(* text (a word, a separator, a ticket id, an entity).  The regular        *)
(* expressions of the source are modelled by what they match on tokens.    *)
(***************************************************************************)
EXTENDS Integers, Sequences, FiniteSets, TLC

VARIABLES
    html,       \* extractTopLevelLis: the fragment handed to the extractor
    items,      \* extractTopLevelLis: the returned items
    pageParts,  \* parseReleasePage: parts, the document handed to it, split
    docPath,    \* parseReleasePage: pagePath
    seg,        \* parseReleasePage: the state of the first pass over the parts
    segBefore,  \* history: seg before the latest part was read
    AI_TOKEN,      \* process.env.AI_TOKEN is set
    NO_AI,         \* --no-ai
    FORCE,         \* --force
    ONLY_VERSION,  \* --version / --only, lower-cased; "" stands for null
    warned,        \* the AI_TOKEN warning was printed
    aiCache,       \* the in-memory cache: key -> record
    cacheFile,     \* data/.ai-cache.json
    lastAiCall,    \* the rate limiter's cursor
    now,           \* Date.now()
    pc,            \* where main is
    paths,         \* the release pages of this run
    pageIdx,       \* AI path: the page being processed
    results,       \* regex path: the promises, per page (doc: the document fetched)
    sections,      \* parseReleasePage: the sections to extract
    secIdx,        \* parseReleasePage: the section being extracted
    pageEntries,   \* parseReleasePage: entries, the entries of the page so far
    allEntries,    \* main: the entries of the pages so far
    outFile,       \* data/releases.json after the run
    priorFile,     \* data/releases.json as the run found it
    debugFiles,    \* data/debug/<version>.md
    aiCalls,       \* history: the external calls issued
    inFlight,      \* history: the external calls awaiting their response
    prevAiCall,    \* history: lastAiCall before the latest call
    fetched,       \* history: the page fetches issued
    trail,         \* history: the states of the section being extracted
    lastTrail,     \* history: the states the latest finished section went through
    lastAdded,     \* history: the entries the latest finished section added
    extractLog     \* history: one record per call of extractWithAI

lisVars == <<html, items>>

pageVars == <<pageParts, docPath, seg, segBefore>>

runVars == <<AI_TOKEN, NO_AI, FORCE, ONLY_VERSION, warned, aiCache, cacheFile,
             lastAiCall, now, pc, paths, pageIdx, results, sections, secIdx,
             pageEntries, allEntries, outFile, priorFile, debugFiles, aiCalls, inFlight,
             prevAiCall, fetched, trail, lastTrail, lastAdded, extractLog>>

vars == <<lisVars, pageVars, runVars>>

----------------------------------------------------------------------------
(* Bounds *)

MaxLen == 8          \* longest fragment handed to extractTopLevelLis

----------------------------------------------------------------------------
(* Tags *)

ListOpen  == {"<ul>", "<ol>"}
ListClose == {"</ul>", "</ol>"}
LisTags   == ListOpen \cup ListClose \cup {"<li>", "</li>"}
LisTokens == LisTags \cup {"a"}

CloseOf(t) == CASE t = "<ul>" -> "</ul>"
                [] t = "<ol>" -> "</ol>"
                [] t = "<li>" -> "</li>"

IsOpen(t)  == t \in ListOpen \cup {"<li>"}
IsClose(t) == t \in ListClose \cup {"</li>"}

----------------------------------------------------------------------------
(* extractTopLevelLis: a single forward scan over the tags matched by tagRe *)

LisInit == [listDepth |-> 0, liDepth |-> 0, capturing |-> FALSE,
            start |-> 1, items |-> <<>>]

\* (mutant) a closing </li> ends the capture at any list depth
LiClosesAnyDepth(st) == st.capturing

\* the test of the closing </li> branch
LiCloses(st) == st.capturing /\ st.listDepth = st.liDepth

\* the body of the while loop for the tag at position i
LisStep(h, i, st) ==
    LET tag == h[i] IN
    IF tag \in ListOpen THEN [st EXCEPT !.listDepth = @ + 1]
    ELSE IF tag \in ListClose THEN [st EXCEPT !.listDepth = @ - 1]
    ELSE IF tag = "<li>" THEN
        IF st.listDepth = 1 /\ ~st.capturing
        THEN [st EXCEPT !.capturing = TRUE, !.liDepth = st.listDepth, !.start = i + 1]
        ELSE st
    ELSE IF tag = "</li>" THEN
        IF LiCloses(st)
        THEN [st EXCEPT !.items = Append(@, SubSeq(h, st.start, i - 1)),
                        !.capturing = FALSE]
        ELSE st
    ELSE st   \* text: tagRe does not match

RECURSIVE LisScan(_, _, _)
LisScan(h, i, st) ==
    IF i > Len(h) THEN st ELSE LisScan(h, i + 1, LisStep(h, i, st))

extractTopLevelLis(h) == LisScan(h, 1, LisInit).items

----------------------------------------------------------------------------
(* Fragments: written tag by tag, keeping the tags properly nested *)

RECURSIVE OpenStack(_, _, _)
\* the tags opened and not yet closed after h[1..i-1], innermost last
OpenStack(h, i, stk) ==
    IF i > Len(h) THEN stk
    ELSE IF IsOpen(h[i]) THEN OpenStack(h, i + 1, Append(stk, h[i]))
    ELSE IF IsClose(h[i]) THEN OpenStack(h, i + 1, SubSeq(stk, 1, Len(stk) - 1))
    ELSE OpenStack(h, i + 1, stk)

Balanced(h) == OpenStack(h, 1, <<>>) = <<>>

\* the scraper is not running
RunIdle ==
    /\ AI_TOKEN = FALSE /\ NO_AI = FALSE /\ FORCE = FALSE /\ ONLY_VERSION = ""
    /\ warned = FALSE /\ aiCache = <<>> /\ cacheFile = <<>>
    /\ lastAiCall = 0 /\ now = 0 /\ pc = "idle" /\ paths = <<>> /\ pageIdx = 0
    /\ results = <<>> /\ sections = <<>> /\ secIdx = 0 /\ pageEntries = <<>>
    /\ allEntries = <<>> /\ outFile = <<>> /\ priorFile = <<>> /\ debugFiles = <<>>
    /\ aiCalls = 0 /\ inFlight = 0 /\ prevAiCall = 0 /\ fetched = 0
    /\ trail = <<>> /\ lastTrail = <<>> /\ lastAdded = <<>> /\ extractLog = <<>>

\* no document is being parsed
PageIdle == pageParts = <<>> /\ docPath = "" /\ seg = <<>> /\ segBefore = <<>>

\* the harness writes one more tag or piece of text and calls the extractor on
\* the fragment
ExtractLis(tok) ==
    /\ Len(html) < MaxLen
    /\ LET stk == OpenStack(html, 1, <<>>) IN
       IsClose(tok) => (stk # <<>> /\ tok = CloseOf(stk[Len(stk)]))
    \* two adjacent pieces of text are one piece of text
    /\ (tok \notin LisTags /\ html # <<>>) => html[Len(html)] \in LisTags
    /\ html' = Append(html, tok)
    /\ items' = extractTopLevelLis(html')
    /\ UNCHANGED <<pageVars, runVars>>

LisInitState == html = <<>> /\ items = <<>> /\ PageIdle /\ RunIdle

LisNext == \E tok \in LisTokens : ExtractLis(tok)

SpecLis == LisInitState /\ [][LisNext]_vars

----------------------------------------------------------------------------
(* The list structure of a balanced fragment, read off the tag nesting *)

RECURSIVE MatchFrom(_, _, _)
\* the position of the tag closing the d innermost tags open before position j
MatchFrom(h, j, d) ==
    IF j > Len(h) THEN Len(h) + 1
    ELSE IF IsOpen(h[j]) THEN MatchFrom(h, j + 1, d + 1)
    ELSE IF IsClose(h[j]) THEN (IF d = 1 THEN j ELSE MatchFrom(h, j + 1, d - 1))
    ELSE MatchFrom(h, j + 1, d)

Match(h, i) == MatchFrom(h, i + 1, 1)

Enclosing(h, i) == {k \in 1..(i - 1) : IsOpen(h[k]) /\ Match(h, k) > i}

SetMax(S) == CHOOSE x \in S : \A y \in S : y <= x

\* position i holds an <li> that is a direct child of a list with no list around it
TopLevelLi(h, i) ==
    /\ h[i] = "<li>"
    /\ Enclosing(h, i) # {}
    /\ h[SetMax(Enclosing(h, i))] \in ListOpen
    /\ Cardinality({k \in Enclosing(h, i) : h[k] \in ListOpen}) = 1

RECURSIVE InnerOfLis(_, _)
InnerOfLis(h, i) ==
    IF i > Len(h) THEN <<>>
    ELSE IF TopLevelLi(h, i)
         THEN <<SubSeq(h, i + 1, Match(h, i) - 1)>> \o InnerOfLis(h, i + 1)
         ELSE InnerOfLis(h, i + 1)

\* an <li> directly inside a top-level <li>, with no list between the two
LiInTopLevelLi(h) ==
    \E i \in 1..Len(h) :
        /\ h[i] = "<li>"
        /\ Enclosing(h, i) # {}
        /\ TopLevelLi(h, SetMax(Enclosing(h, i)))

\* C1 (as claimed): for every balanced fragment the extractor returns exactly the
\* inner content of each <li> that is a direct child of an outermost list, in
\* document order, nested sub-lists included.
C1_AsClaimed == Balanced(html) => items = InnerOfLis(html, 1)

\* C1 (amended): the same, for balanced fragments in which no <li> sits directly
\* inside a top-level <li> (only a nested list may hold further <li>).
C1_TopLevelLis ==
    (Balanced(html) /\ ~LiInTopLevelLi(html)) => items = InnerOfLis(html, 1)

\* a balanced fragment whose top-level item holds a nested list with its own item,
\* returned as one item
C1_Witness ==
    /\ Balanced(html) /\ ~LiInTopLevelLi(html)
    /\ Len(items) = 1
    /\ \E k \in 1..Len(items[1]) : items[1][k] = "<li>"
    /\ \E k \in 1..Len(items[1]) : items[1][k] \in ListOpen

----------------------------------------------------------------------------
(* Text: tokens, tag stripping, entity decoding, trimming *)

BlockTags  == {"<p>", "</p>"}
AllTags    == LisTags \cup BlockTags
Whitespace == {" ", "\n"}
\* the separator class [-:,.&/\s] of the description clean-up
Separators == {"-", ":", ",", ".", "&", "/"} \cup Whitespace
\* the tokens matching /DSOF-\d+/
TicketIds  == {"DSOF-100", "DSOF-1"}
\* the tokens matching /(r\d+(?:\.\d+)*)/i
VersionTokens == {"r3", "r31", "r32", "r32.1", "r32.1.2", "r320", "R32"}

\* s.replace(/<[^>]+>/g, "")
StripTags(seq) == LET NotTag(t) == t \notin AllTags IN SelectSeq(seq, NotTag)

decodeEntity(t) == CASE t = "&amp;"  -> "&"
                     [] t = "&nbsp;" -> " "
                     [] OTHER        -> t

decodeEntities(seq) == [i \in 1..Len(seq) |-> decodeEntity(seq[i])]

RECURSIVE DropLeading(_, _)
DropLeading(seq, S) ==
    IF seq # <<>> /\ seq[1] \in S THEN DropLeading(Tail(seq), S) ELSE seq

RECURSIVE DropTrailing(_, _)
DropTrailing(seq, S) ==
    IF seq # <<>> /\ seq[Len(seq)] \in S
    THEN DropTrailing(SubSeq(seq, 1, Len(seq) - 1), S) ELSE seq

trim(seq) == DropTrailing(DropLeading(seq, Whitespace), Whitespace)

\* decodeEntities(raw.replace(/<[^>]+>/g, "")).trim()
PlainText(raw) == trim(decodeEntities(StripTags(raw)))

toLowerCase(v) == IF v = "R32" THEN "r32" ELSE v

RECURSIVE JoinComma(_)
\* dsofMatches.join(", ")
JoinComma(seq) ==
    IF seq = <<>> THEN <<>>
    ELSE IF Len(seq) = 1 THEN seq
    ELSE <<seq[1], ", ">> \o JoinComma(Tail(seq))

\* text.match(/DSOF-\d+/g) joined, "" when there is none
DsofOf(text) == LET IsTicket(t) == t \in TicketIds IN JoinComma(SelectSeq(text, IsTicket))

\* the description: ticket ids removed, leading and trailing separators trimmed,
\* the full text when nothing is left
DescriptionOf(text) ==
    LET NotTicket(t) == t \notin TicketIds
        d == trim(DropTrailing(DropLeading(SelectSeq(text, NotTicket), Separators),
                               Separators))
    IN  IF d = <<>> THEN text ELSE d

BASE_URL == "https://help.disguise.one"

\* `${BASE_URL}${pagePath}${anchor ? "#" + anchor : ""}`
UrlOf(pagePath, anchor) ==
    <<BASE_URL, pagePath>> \o (IF anchor # "" THEN <<"#", anchor>> ELSE <<>>)

----------------------------------------------------------------------------
(* extractWithRegex: the Pattern-Based Entry Extractor *)

RECURSIVE IndexFrom(_, _, _)
\* the first position >= i holding a token of S, 0 when there is none
IndexFrom(seq, i, S) ==
    IF i > Len(seq) THEN 0
    ELSE IF seq[i] \in S THEN i ELSE IndexFrom(seq, i + 1, S)

RECURSIVE CloseOfBlock(_, _, _, _)
\* the closeRe loop: the position where the depth of blockTag returns to 0
CloseOfBlock(seq, i, blockTag, depth) ==
    IF i > Len(seq) THEN 0
    ELSE IF seq[i] = CloseOf(blockTag)
         THEN (IF depth = 1 THEN i ELSE CloseOfBlock(seq, i + 1, blockTag, depth - 1))
    ELSE IF seq[i] = blockTag THEN CloseOfBlock(seq, i + 1, blockTag, depth + 1)
    ELSE CloseOfBlock(seq, i + 1, blockTag, depth)

\* one list item turned into an entry; items with no text give none
ItemEntries(raw, currentVersion, currentCategory, sectionUrl) ==
    LET text == PlainText(raw) IN
    IF text = <<>> THEN <<>>
    ELSE <<[version     |-> currentVersion,
            category    |-> currentCategory,
            dsof        |-> DsofOf(text),
            description |-> DescriptionOf(text),
            url         |-> sectionUrl]>>

RECURSIVE ListEntries(_, _, _, _)
ListEntries(lis, currentVersion, currentCategory, sectionUrl) ==
    IF lis = <<>> THEN <<>>
    ELSE ItemEntries(lis[1], currentVersion, currentCategory, sectionUrl)
         \o ListEntries(Tail(lis), currentVersion, currentCategory, sectionUrl)

\* (mutant) the paragraph text becomes an entry of its own
ParagraphAsEntry(entries, pText, currentVersion, currentCategory) ==
    IF pText # <<>>
    THEN Append(entries, [version |-> currentVersion, category |-> currentCategory,
                          dsof |-> <<>>, description |-> pText, url |-> <<>>])
    ELSE entries

\* the <p> branch: the paragraph text continues the last entry of the same
\* version and category
ParagraphInto(entries, pText, currentVersion, currentCategory) ==
    IF pText # <<>> /\ entries # <<>>
       /\ entries[Len(entries)].version = currentVersion
       /\ entries[Len(entries)].category = currentCategory
    THEN [entries EXCEPT ![Len(entries)].description = @ \o <<"\n">> \o pText]
    ELSE entries

RECURSIVE RegexScan(_, _, _, _, _, _)
\* the topBlockRe loop from lastIndex = pos
RegexScan(sectionContent, pos, currentVersion, currentCategory, sectionUrl, entries) ==
    LET at == IndexFrom(sectionContent, pos, {"<ul>", "<ol>", "<p>"}) IN
    IF at = 0 THEN entries
    ELSE IF sectionContent[at] = "<p>" THEN
        LET closeIdx == IndexFrom(sectionContent, at + 1, {"</p>"}) IN
        IF closeIdx = 0
        THEN RegexScan(sectionContent, at + 1, currentVersion, currentCategory,
                       sectionUrl, entries)
        ELSE RegexScan(sectionContent, closeIdx + 1, currentVersion, currentCategory,
                       sectionUrl,
                       ParagraphInto(entries,
                                     PlainText(SubSeq(sectionContent, at + 1, closeIdx - 1)),
                                     currentVersion, currentCategory))
    ELSE
        LET closeAt == CloseOfBlock(sectionContent, at + 1, sectionContent[at], 1) IN
        IF closeAt = 0
        THEN RegexScan(sectionContent, at + 1, currentVersion, currentCategory,
                       sectionUrl, entries)
        ELSE RegexScan(sectionContent, closeAt + 1, currentVersion, currentCategory,
                       sectionUrl,
                       entries \o ListEntries(
                           extractTopLevelLis(SubSeq(sectionContent, at, closeAt)),
                           currentVersion, currentCategory, sectionUrl))

extractWithRegex(sectionContent, currentVersion, currentCategory, sectionUrl, entries) ==
    RegexScan(sectionContent, 1, currentVersion, currentCategory, sectionUrl, entries)

----------------------------------------------------------------------------
(* parseReleasePage, first pass: the document is the sequence of parts of       *)
(* content.split(/(?=<h[23][^>]*>)/i); a part is its heading (head "h2", "h3"   *)
(* or "none", the heading's inner tokens and id attribute) and the rest, body.  *)

P3   == "/designer/release-notes/r3"
P31  == "/designer/release-notes/r31"
P32  == "/designer/release-notes/r32"
P320 == "/designer/release-notes/r320"

\* pagePath.match(/(r\d+)/i)
PageVersionOf(pagePath) ==
    CASE pagePath = P3   -> "r3"
      [] pagePath = P31  -> "r31"
      [] pagePath = P32  -> "r32"
      [] pagePath = P320 -> "r320"
      [] OTHER           -> ""

\* /<(ul|ol|li)[\s>]/i.test(sectionContent)
HasListContent(sectionContent) ==
    IndexFrom(sectionContent, 1, {"<ul>", "<ol>", "<li>"}) # 0

SegInit == [currentVersion |-> "", currentCategory |-> <<>>, currentAnchor |-> "",
            versionSections |-> <<>>, entries |-> <<>>]

\* the h2 and h3 checks of one part
HeadingStep(st, part, pageVersion) ==
    LET rawText == PlainText(part.text)
        vAt     == IndexFrom(rawText, 1, VersionTokens)
    IN
    IF part.head = "h2" THEN
        IF vAt # 0
        THEN [st EXCEPT !.currentVersion = rawText[vAt],
                        !.currentAnchor = part.id,
                        !.currentCategory = <<>>,
                        !.versionSections =
                            Append(@, [version |-> rawText[vAt], anchor |-> part.id,
                                       html |-> <<>>, parts |-> <<>>])]
        ELSE [st EXCEPT !.currentVersion =
                            IF @ = "" /\ pageVersion # "" THEN pageVersion ELSE @,
                        !.currentCategory = rawText]
    ELSE IF part.head = "h3" THEN [st EXCEPT !.currentCategory = rawText]
    ELSE st

\* the part is added to the current section, or opens the page-level section
AccumulateStep(st, part, pagePath) ==
    LET sectionUrl == UrlOf(pagePath, st.currentAnchor)
        sub == [category |-> st.currentCategory, content |-> part.body,
                url |-> sectionUrl]
        n   == Len(st.versionSections)
    IN
    IF n > 0 THEN
        [st EXCEPT !.versionSections[n].html = Append(@, part),
                   !.versionSections[n].parts =
                       IF HasListContent(part.body) THEN Append(@, sub) ELSE @]
    ELSE IF st.currentVersion # "" /\ HasListContent(part.body) THEN
        [st EXCEPT !.versionSections =
            <<[version |-> st.currentVersion, anchor |-> st.currentAnchor,
               html |-> <<part>>, parts |-> <<sub>>]>>]
    ELSE st

\* s.version.toLowerCase() === ONLY_VERSION; "" stands for a null ONLY_VERSION
VersionSelected(version, onlyVersion) == toLowerCase(version) = onlyVersion

\* the regex fallback of the first pass, per part
RegexStep(st, part, pagePath, useAi, onlyVersion) ==
    IF ~useAi /\ (onlyVersion = "" \/ VersionSelected(st.currentVersion, onlyVersion))
    THEN [st EXCEPT !.entries =
            extractWithRegex(part.body, st.currentVersion, st.currentCategory,
                             UrlOf(pagePath, st.currentAnchor), @)]
    ELSE st

RECURSIVE FirstPass(_, _, _, _, _, _)
FirstPass(parts, i, st, pagePath, useAi, onlyVersion) ==
    IF i > Len(parts) THEN st
    ELSE FirstPass(parts, i + 1,
                   RegexStep(AccumulateStep(HeadingStep(st, parts[i],
                                                        PageVersionOf(pagePath)),
                                            parts[i], pagePath),
                             parts[i], pagePath, useAi, onlyVersion),
                   pagePath, useAi, onlyVersion)

\* the sections the extraction works on
SectionsOf(versionSections, onlyVersion) ==
    IF onlyVersion # ""
    THEN LET Sel(sec) == VersionSelected(sec.version, onlyVersion)
         IN  SelectSeq(versionSections, Sel)
    ELSE versionSections

----------------------------------------------------------------------------
(* parseReleasePage, the orphan merge of the regex path *)

RECURSIVE ParentIndex(_, _, _)
\* the nearest preceding entry with ticket ids, of the same version and category
ParentIndex(merged, entry, i) ==
    IF i = 0 THEN 0
    ELSE IF merged[i].dsof # <<>> /\ merged[i].version = entry.version
            /\ merged[i].category = entry.category
         THEN i
         ELSE ParentIndex(merged, entry, i - 1)

\* (mutant) the orphan is never merged
MergeStepNoParent(merged, entry) == Append(merged, entry)

MergeStep(merged, entry) ==
    IF entry.dsof # <<>> \/ merged = <<>> THEN Append(merged, entry)
    ELSE LET parent == ParentIndex(merged, entry, Len(merged)) IN
         IF parent # 0
         THEN [merged EXCEPT ![parent].description = @ \o <<"\n">> \o entry.description]
         ELSE Append(merged, entry)

RECURSIVE MergeOrphans(_, _, _)
MergeOrphans(entries, i, merged) ==
    IF i > Len(entries) THEN merged
    ELSE MergeOrphans(entries, i + 1, MergeStep(merged, entries[i]))

\* what parseReleasePage returns when USE_AI is false
ParseWithRegex(doc, pagePath, onlyVersion) ==
    MergeOrphans(FirstPass(doc, 1, SegInit, pagePath, FALSE, onlyVersion).entries,
                 1, <<>>)

----------------------------------------------------------------------------
(* The AI cache and the entries of a service result *)

\* htmlToMarkdown of a section's html: the markdown keeps the headings' text and
\* the content, and drops the id attributes
htmlToMarkdown(secHtml) ==
    [i \in 1..Len(secHtml) |->
        [head |-> secHtml[i].head, text |-> PlainText(secHtml[i].text),
         body |-> secHtml[i].body]]

\* sha256 of the markdown; digests of different markdown are taken to differ
cacheKey(markdown) == <<"sha256", markdown>>

\* aiCache[key] = value
CachePut(cache, key, value) ==
    [k \in DOMAIN cache \cup {key} |-> IF k = key THEN value ELSE cache[k]]

\* { version, ...parsed }
CacheRecord(version, parsed) ==
    [f \in DOMAIN parsed \cup {"version"} |->
        IF f \in DOMAIN parsed THEN parsed[f] ELSE version]

\* the entry pushed for one element of aiEntries with a description
AiEntry(e, aiResult, version, sectionUrl) ==
    [version       |-> version,
     category      |-> e.category,
     dsof          |-> e.dsof,
     description   |-> e.description,
     build         |-> aiResult.build,
     starter_build |-> aiResult.starter_build,
     released      |-> aiResult.released,
     url           |-> sectionUrl]

RECURSIVE ReadAiEntries(_, _, _, _, _)
\* the for loop over aiEntries from element i: the entries after it, and whether
\* it threw (an element that is null has no description to read)
ReadAiEntries(aiResult, i, version, sectionUrl, entries) ==
    IF i > Len(aiResult.entries) THEN [entries |-> entries, threw |-> FALSE]
    ELSE LET e == aiResult.entries[i] IN
         IF e.isNull THEN [entries |-> entries, threw |-> TRUE]
         ELSE IF e.description = <<>>
              THEN ReadAiEntries(aiResult, i + 1, version, sectionUrl, entries)
              ELSE ReadAiEntries(aiResult, i + 1, version, sectionUrl,
                                 Append(entries, AiEntry(e, aiResult, version, sectionUrl)))

RECURSIVE FallbackEntries(_, _, _)
\* the catch block: extractWithRegex on each sub-section of the section
FallbackEntries(sec, i, entries) ==
    IF i > Len(sec.parts) THEN entries
    ELSE FallbackEntries(sec, i + 1,
                         extractWithRegex(sec.parts[i].content, sec.version,
                                          sec.parts[i].category, sec.parts[i].url,
                                          entries))

\* the body of the try and its catch, given the result of extractWithAI
\* (threw: extractWithAI threw)
SectionEntries(sec, pagePath, threw, aiResult, entries) ==
    IF threw THEN FallbackEntries(sec, 1, entries)
    ELSE IF "entries" \notin DOMAIN aiResult   \* aiEntries undefined: not iterable
         THEN FallbackEntries(sec, 1, entries)
    ELSE LET r == ReadAiEntries(aiResult, 1, sec.version,
                                UrlOf(pagePath, sec.anchor), entries)
         IN  IF r.threw THEN FallbackEntries(sec, 1, r.entries) ELSE r.entries

----------------------------------------------------------------------------
(* The environment of a run: the site, the index page, the service, the files *)

StartTime == 100000     \* Date.now() when the process starts

MinInterval == 6000     \* the rate limiter's interval, in ms

\* how long the service takes to answer
AiLatencies == {3000, 9000}

Part(head, text, id, body) == [head |-> head, text |-> text, id |-> id, body |-> body]

ListXY == <<"<ul>", "<li>", "DSOF-1", ":", " ", "x", "</li>", "<li>", "y", "</li>", "</ul>">>

ListE2E == <<"<ul>", "<li>", "Fixed", " ", "DSOF-100", ":", " ", "crash on load", "</li>",
             "<li>", "Improved startup time", "</li>", "</ul>">>

\* one version heading r32.1, one category, a two-item list
DocE2E == << Part("h2", <<"r32.1">>, "r32-1", <<>>),
             Part("h3", <<"Bug Fixes">>, "", ListE2E) >>

\* the heading of r32 twice, with the same content under both
DocTwice == << Part("h2", <<"r32">>, "r32", ListXY),
               Part("h2", <<"r32">>, "r32-hotfix", ListXY) >>

\* no version heading: a category heading and a list
Doc31 == << Part("h2", <<"Bug Fixes">>, "", ListXY) >>

\* the documents a page may hold; a page with none answers 404
Site(pagePath) ==
    CASE pagePath = P32 -> {DocE2E, DocTwice}
      [] pagePath = P31 -> {Doc31}
      [] OTHER          -> {}

\* the release pages r14..r32, of which the site modelled here serves the last two
FALLBACK_PATHS == <<P31, P32>>

\* the hrefs the index page may hold, in document order
IndexLinks == {<<>>, <<P320, P32, P320>>}

RECURSIVE Dedup(_, _)
Dedup(links, seen) ==
    IF links = <<>> THEN seen
    ELSE Dedup(Tail(links),
               IF \E i \in 1..Len(seen) : seen[i] = links[1]
               THEN seen ELSE Append(seen, links[1]))

discoverReleaseLinks(links) ==
    IF Dedup(links, <<>>) # <<>> THEN Dedup(links, <<>>) ELSE FALLBACK_PATHS

\* ONLY_VERSION.match(/^(r\d+)/i), lower-cased; "" when there is no match
MajorOf(onlyVersion) ==
    CASE onlyVersion \in {"r32", "r32.1", "r32.1.2"} -> "r32"
      [] onlyVersion = "r9"   -> "r9"
      [] onlyVersion = "r3"   -> "r3"
      [] onlyVersion = "r31"  -> "r31"
      [] onlyVersion = "r320" -> "r320"
      [] OTHER                -> ""

\* paths.filter(p => p.toLowerCase().endsWith(`/${major}`))
PathsFor(ps, onlyVersion) ==
    IF onlyVersion # "" /\ MajorOf(onlyVersion) # ""
    THEN LET Ends(pp) == PageVersionOf(pp) = MajorOf(onlyVersion) IN SelectSeq(ps, Ends)
    ELSE ps

OnlyVersions == {"", "r32", "r9"}

AiItem(category, dsof, description) ==
    [isNull |-> FALSE, category |-> category, dsof |-> dsof, description |-> description]

NullItem == [isNull |-> TRUE, category |-> <<>>, dsof |-> <<>>, description |-> <<>>]

\* a result that conforms to the schema; its second entry has no description
GoodResult ==
    [build |-> "234682", starter_build |-> "", released |-> "",
     entries |-> << AiItem(<<"Bug Fixes">>, <<"DSOF-1">>, <<"x">>),
                    AiItem(<<"Bug Fixes">>, <<>>, <<>>),
                    AiItem(<<"Bug Fixes">>, <<>>, <<"y, summarised">>) >>]

\* a result that parses as JSON and whose second entry is null
BrokenResult ==
    [build |-> "234682", starter_build |-> "", released |-> "",
     entries |-> << AiItem(<<"Bug Fixes">>, <<"DSOF-1">>, <<"x">>), NullItem >>]

AiResults == {GoodResult, BrokenResult}

\* why a call fails: the response is not ok, the payload is no JSON, the content is
\* missing
AiFailures == {"not_ok", "malformed", "no_content"}

NoFile      == [exists |-> FALSE, parses |-> FALSE, content |-> <<>>]
CorruptFile == [exists |-> TRUE, parses |-> FALSE, content |-> <<>>]
FileOf(content) == [exists |-> TRUE, parses |-> TRUE, content |-> content]

\* a cache written by an earlier run: the section of r32 of DocTwice
EarlierCache ==
    [k \in {cacheKey(htmlToMarkdown(<<DocTwice[1]>>))} |-> CacheRecord("r32", GoodResult)]

CacheFiles == {NoFile, CorruptFile, FileOf(EarlierCache)}

Old(version, description) ==
    [version |-> version, category |-> <<"Old">>, dsof |-> <<>>,
     description |-> <<description>>, url |-> <<BASE_URL>>]

\* a releases.json written by earlier runs
EarlierOutput ==
    << Old("r3", "a"), Old("r32", "b"), Old("r32.1", "c"), Old("R32", "d"),
       Old("r320", "e"), Old("r32.1.2", "f"), Old("r3", "g") >>

OutFiles == {NoFile, CorruptFile, FileOf(EarlierOutput)}

\* (mutant) the token is not looked at
UseAiWithoutToken == ~NO_AI

USE_AI == ~NO_AI /\ AI_TOKEN

----------------------------------------------------------------------------
(* parseReleasePage on its own: the documents it may be handed, part by part *)

MaxParts == 3        \* most parts of a document

ListX == <<"<ul>", "<li>", "DSOF-1", ":", " ", "x", "</li>", "</ul>">>

ParaMore == <<"<p>", "more", " ", "&amp;", " ", "more", "</p>">>

ParaBlank == <<"<p>", " ", "</p>">>

\* what may follow a heading, up to the next heading
PageBodies == { <<>>, ListXY, ParaMore, ParaBlank, ListX \o ParaMore }

\* the headings: a version, a hotfix heading repeating it, an h2 and an h3 with
\* no version token; "none" is the content before the first heading
PageHeads ==
    { [head |-> "h2", text |-> <<"r32">>, id |-> "r32"],
      [head |-> "h2", text |-> <<"r32", " ", "hotfix">>, id |-> "r32-hotfix"],
      [head |-> "h2", text |-> <<"Bug Fixes">>, id |-> "bug-fixes"],
      [head |-> "h3", text |-> <<"New Features">>, id |-> ""],
      [head |-> "none", text |-> <<>>, id |-> ""] }

PageParts == { Part(h.head, h.text, h.id, b) : h \in PageHeads, b \in PageBodies }

\* the loop of the first pass of parseReleasePage reads the next part of the
\* document, from the state the parts before it left (regex path, no --version)
ParsePart(part) ==
    /\ Len(pageParts) < MaxParts
    \* the split is at the headings: only the first part may have none
    /\ part.head = "none" => pageParts = <<>>
    /\ pageParts' = Append(pageParts, part)
    /\ seg' = FirstPass(<<part>>, 1, seg, docPath, FALSE, "")
    /\ segBefore' = seg
    /\ UNCHANGED <<docPath, lisVars, runVars>>

PageInitState ==
    /\ html = <<>> /\ items = <<>> /\ RunIdle
    /\ pageParts = <<>> /\ docPath \in {P31, P32} /\ seg = SegInit
    /\ segBefore = SegInit

PageNext == \E part \in PageParts : ParsePart(part)

SpecPage == PageInitState /\ [][PageNext]_vars

----------------------------------------------------------------------------
(* The run: module start-up, main, parseReleasePage, extractWithAI *)

Max(a, b) == IF a >= b THEN a ELSE b

\* (mutant) the limiter never sleeps
WaitForNothing(t, last) == 0

\* rateLimitDelay: how long it sleeps
WaitFor(t, last) == Max(0, MinInterval - (t - last))

Pending == [status |-> "pending", doc |-> <<>>, entries |-> <<>>]

RECURSIVE WriteDebug(_, _, _)
\* writeFileSync(join(debugDir, `${sec.version}.md`), htmlToMarkdown(sec.html))
WriteDebug(files, versionSections, i) ==
    IF i > Len(versionSections) THEN files
    ELSE WriteDebug(CachePut(files, versionSections[i].version,
                             htmlToMarkdown(versionSections[i].html)),
                    versionSections, i + 1)

\* sections with no html are skipped
ToExtract(secs) == LET HasHtml(sec) == sec.html # <<>> IN SelectSeq(secs, HasHtml)

\* (mutant) the filter drops every record of the same release page
KeepOthersByMajor(existing, onlyVersion) ==
    LET Other(e) == MajorOf(toLowerCase(e.version)) # MajorOf(onlyVersion)
    IN  SelectSeq(existing, Other)

\* existing.filter(e => e.version.toLowerCase() !== ONLY_VERSION)
KeepOthers(existing, onlyVersion) ==
    LET Other(e) == ~VersionSelected(e.version, onlyVersion) IN SelectSeq(existing, Other)

RECURSIVE FirstPerVersion(_, _)
FirstPerVersion(all, seen) ==
    IF all = <<>> THEN <<>>
    ELSE IF all[1].version \in seen THEN FirstPerVersion(Tail(all), seen)
    ELSE <<all[1]>> \o FirstPerVersion(Tail(all), seen \cup {all[1].version})

\* (mutant) one record is written per version
MergedOutputPerVersion(prior, onlyVersion, all) == FirstPerVersion(all, {})

\* what main writes to releases.json
MergedOutput(prior, onlyVersion, all) ==
    IF onlyVersion # "" /\ prior.exists
    THEN KeepOthers(IF prior.parses THEN prior.content ELSE <<>>, onlyVersion) \o all
    ELSE all

RECURSIVE Fulfilled(_, _)
\* the loop over the settled results, in the order of paths
Fulfilled(res, i) ==
    IF i > Len(res) THEN <<>>
    ELSE (IF res[i].status = "fulfilled" THEN res[i].entries ELSE <<>>)
         \o Fulfilled(res, i + 1)

RunInit ==
    /\ html = <<>> /\ items = <<>> /\ PageIdle
    /\ AI_TOKEN \in BOOLEAN /\ NO_AI \in BOOLEAN /\ FORCE \in BOOLEAN
    /\ ONLY_VERSION \in OnlyVersions
    /\ warned = (~AI_TOKEN /\ ~NO_AI)
    /\ cacheFile \in CacheFiles
    /\ aiCache = IF cacheFile.exists /\ cacheFile.parses THEN cacheFile.content ELSE <<>>
    /\ lastAiCall = 0 /\ now = StartTime /\ pc = "main"
    /\ paths = <<>> /\ pageIdx = 0 /\ results = <<>>
    /\ sections = <<>> /\ secIdx = 0 /\ pageEntries = <<>> /\ allEntries = <<>>
    /\ outFile = NoFile /\ priorFile = NoFile /\ debugFiles = <<>>
    /\ aiCalls = 0 /\ inFlight = 0 /\ prevAiCall = 0 /\ fetched = 0
    /\ trail = <<>> /\ lastTrail = <<>> /\ lastAdded = <<>> /\ extractLog = <<>>

cfgVars == <<AI_TOKEN, NO_AI, FORCE, ONLY_VERSION, warned>>

\* main up to the page loop: the index, the page list, the --version filter
FetchIndex ==
    /\ pc = "main"
    /\ \E ok \in BOOLEAN : \E links \in IndexLinks :
        LET ps == PathsFor(IF ok THEN discoverReleaseLinks(links) ELSE FALLBACK_PATHS,
                           ONLY_VERSION)
        IN  /\ paths' = ps
            /\ IF ONLY_VERSION # "" /\ ps = <<>>
               THEN /\ pc' = "exit1"
                    /\ fetched' = fetched + 1
                    /\ UNCHANGED <<pageIdx, results>>
               ELSE /\ pc' = IF USE_AI THEN "page" ELSE "parallel"
                    /\ pageIdx' = 1
                    /\ results' = [i \in 1..Len(ps) |-> Pending]
                    \* the regex path issues every page fetch at once
                    /\ fetched' = fetched + 1 + (IF USE_AI THEN 0 ELSE Len(ps))
    /\ UNCHANGED <<lisVars, pageVars, cfgVars, aiCache, cacheFile, lastAiCall, now, sections,
                   secIdx, pageEntries, allEntries, outFile, priorFile, debugFiles,
                   aiCalls, inFlight, prevAiCall, trail, lastTrail, lastAdded, extractLog>>

AfterPage == IF pageIdx + 1 > Len(paths) THEN "write" ELSE "page"

\* AI path: one iteration of the page loop up to the first section
FetchPage ==
    /\ pc = "page"
    /\ fetched' = fetched + 1
    /\ \E ok \in BOOLEAN :
        IF ~ok
        THEN \* fetchText threw: the page is skipped
             /\ pc' = AfterPage /\ pageIdx' = pageIdx + 1
             /\ UNCHANGED <<sections, secIdx, pageEntries, debugFiles, trail>>
        ELSE \E doc \in Site(paths[pageIdx]) :
             LET st   == FirstPass(doc, 1, SegInit, paths[pageIdx], TRUE, ONLY_VERSION)
                 secs == ToExtract(SectionsOf(st.versionSections, ONLY_VERSION))
             IN  /\ debugFiles' = WriteDebug(debugFiles, st.versionSections, 1)
                 /\ IF secs = <<>>
                    THEN /\ pc' = AfterPage /\ pageIdx' = pageIdx + 1
                         /\ UNCHANGED <<sections, secIdx, pageEntries, trail>>
                    ELSE /\ pc' = "section" /\ sections' = secs /\ secIdx' = 1
                         /\ pageEntries' = <<>> /\ trail' = <<"PENDING">>
                         /\ UNCHANGED pageIdx
    /\ UNCHANGED <<lisVars, pageVars, cfgVars, aiCache, cacheFile, lastAiCall, now, paths, results,
                   allEntries, outFile, priorFile, aiCalls, inFlight, prevAiCall,
                   lastTrail, lastAdded, extractLog>>

\* the section's try/catch is over: its entries, then the next section or page
FinishSection(threw, aiResult, tr) ==
    LET sec  == sections[secIdx]
        mine == SectionEntries(sec, paths[pageIdx], threw, aiResult, pageEntries)
        fell == \/ threw
                \/ "entries" \notin DOMAIN aiResult
                \/ ReadAiEntries(aiResult, 1, sec.version, <<>>, <<>>).threw
    IN  /\ lastTrail' = tr \o (IF fell THEN <<"FALLBACK">> ELSE <<>>) \o <<"DONE">>
        /\ lastAdded' = SubSeq(mine, Len(pageEntries) + 1, Len(mine))
        /\ IF secIdx < Len(sections)
           THEN /\ secIdx' = secIdx + 1 /\ pc' = "section" /\ trail' = <<"PENDING">>
                /\ pageEntries' = mine
                /\ UNCHANGED <<sections, pageIdx, allEntries>>
           ELSE /\ allEntries' = allEntries \o mine
                /\ pc' = AfterPage /\ pageIdx' = pageIdx + 1
                /\ sections' = <<>> /\ secIdx' = 0 /\ pageEntries' = <<>>
                /\ trail' = <<>>

KeyOf(sec) == cacheKey(htmlToMarkdown(sec.html))

\* (mutant) the test on FORCE is inverted
CacheHitWhenForced(cache, key, force) == key \in DOMAIN cache /\ force

\* (mutant) the force flag is not looked at
CacheHitDespiteForce(cache, key, force) == key \in DOMAIN cache

\* aiCache[key] && !FORCE
CacheHit(cache, key, force) == key \in DOMAIN cache /\ ~force

\* rateLimitDelay is over: the cursor is set and the request is sent
BeginCall(t) ==
    /\ now' = t
    /\ lastAiCall' = t
    /\ prevAiCall' = lastAiCall
    /\ aiCalls' = aiCalls + 1
    /\ inFlight' = inFlight + 1
    /\ pc' = "calling"
    /\ trail' = <<"PENDING", "CACHE_CHECK", "RATE_LIMITED", "CALLING">>

\* extractWithAI up to its first await: the cache check, the rate limiter
SectionStart ==
    /\ pc = "section"
    /\ LET key == KeyOf(sections[secIdx]) IN
       IF CacheHit(aiCache, key, FORCE)
       THEN /\ FinishSection(FALSE, aiCache[key], <<"PENDING", "CACHE_CHECK", "CACHE_HIT">>)
            /\ extractLog' = Append(extractLog,
                   [key |-> key, version |-> sections[secIdx].version, called |-> FALSE,
                    threw |-> FALSE, result |-> aiCache[key]])
            /\ UNCHANGED <<now, lastAiCall, prevAiCall, aiCalls, inFlight>>
       ELSE IF WaitFor(now, lastAiCall) > 0
            THEN /\ pc' = "sleeping"
                 /\ trail' = <<"PENDING", "CACHE_CHECK", "RATE_LIMITED">>
                 /\ UNCHANGED <<now, lastAiCall, prevAiCall, aiCalls, inFlight, sections,
                                secIdx, pageEntries, pageIdx, allEntries, lastTrail,
                                lastAdded, extractLog>>
            ELSE /\ BeginCall(now)
                 /\ UNCHANGED <<sections, secIdx, pageEntries, pageIdx, allEntries,
                                lastTrail, lastAdded, extractLog>>
    /\ UNCHANGED <<lisVars, pageVars, cfgVars, aiCache, cacheFile, paths, results, outFile,
                   priorFile, debugFiles, fetched>>

\* the timer of rateLimitDelay fires
TimerFires ==
    /\ pc = "sleeping"
    /\ BeginCall(now + WaitFor(now, lastAiCall))
    /\ UNCHANGED <<lisVars, pageVars, cfgVars, aiCache, cacheFile, paths, pageIdx, results, sections,
                   secIdx, pageEntries, allEntries, outFile, priorFile, debugFiles,
                   fetched, lastTrail, lastAdded, extractLog>>

\* the service answers: the rest of extractWithAI and of the section's try/catch
AiResponds ==
    /\ pc = "calling"
    /\ inFlight' = inFlight - 1
    /\ \E latency \in AiLatencies : now' = now + latency
    /\ LET key == KeyOf(sections[secIdx]) IN
       \E ok \in BOOLEAN :
        IF ok
        THEN \E parsed \in AiResults :
             /\ aiCache' = CachePut(aiCache, key,
                                    CacheRecord(sections[secIdx].version, parsed))
             /\ cacheFile' = FileOf(aiCache')
             /\ FinishSection(FALSE, parsed, Append(trail, "SUCCESS"))
             /\ extractLog' = Append(extractLog,
                    [key |-> key, version |-> sections[secIdx].version, called |-> TRUE,
                     threw |-> FALSE, result |-> parsed])
        ELSE \E why \in AiFailures :
             /\ FinishSection(TRUE, [error |-> why], trail)
             /\ extractLog' = Append(extractLog,
                    [key |-> key, version |-> sections[secIdx].version, called |-> TRUE,
                     threw |-> TRUE, result |-> [error |-> TRUE]])
             /\ UNCHANGED <<aiCache, cacheFile>>
    /\ UNCHANGED <<lisVars, pageVars, cfgVars, lastAiCall, paths, results, outFile, priorFile,
                   debugFiles, aiCalls, prevAiCall, fetched>>

\* regex path: the promise of one page settles
SettlePage(i) ==
    /\ pc = "parallel"
    /\ i \in 1..Len(paths)
    /\ results[i].status = "pending"
    /\ \E ok \in BOOLEAN :
        IF ~ok
        THEN /\ results' = [results EXCEPT ![i] = [status |-> "rejected", doc |-> <<>>, entries |-> <<>>]]
             /\ UNCHANGED debugFiles
        ELSE \E doc \in Site(paths[i]) :
             /\ results' = [results EXCEPT ![i] =
                    [status |-> "fulfilled", doc |-> doc,
                     entries |-> ParseWithRegex(doc, paths[i], ONLY_VERSION)]]
             /\ debugFiles' = WriteDebug(debugFiles,
                    FirstPass(doc, 1, SegInit, paths[i], FALSE, ONLY_VERSION).versionSections,
                    1)
    /\ UNCHANGED <<lisVars, pageVars, cfgVars, aiCache, cacheFile, lastAiCall, now, pc, paths,
                   pageIdx, sections, secIdx, pageEntries, allEntries, outFile, priorFile,
                   aiCalls, inFlight, prevAiCall, fetched, trail, lastTrail, lastAdded, extractLog>>

\* regex path: every promise has settled; the results are gathered in order
Gather ==
    /\ pc = "parallel"
    /\ \A i \in 1..Len(paths) : results[i].status # "pending"
    /\ allEntries' = allEntries \o Fulfilled(results, 1)
    /\ pc' = "write"
    /\ UNCHANGED <<lisVars, pageVars, cfgVars, aiCache, cacheFile, lastAiCall, now, paths, pageIdx,
                   results, sections, secIdx, pageEntries, outFile, priorFile, debugFiles,
                   aiCalls, inFlight, prevAiCall, fetched, trail, lastTrail, lastAdded, extractLog>>

\* main writes releases.json, merged into the file it finds on a scoped run
WriteOutput ==
    /\ pc = "write"
    /\ \E prior \in OutFiles :
        /\ priorFile' = prior
        /\ outFile' = FileOf(MergedOutput(prior, ONLY_VERSION, allEntries))
    /\ pc' = "done"
    /\ UNCHANGED <<lisVars, pageVars, cfgVars, aiCache, cacheFile, lastAiCall, now, paths, pageIdx,
                   results, sections, secIdx, pageEntries, allEntries, debugFiles,
                   aiCalls, inFlight, prevAiCall, fetched, trail, lastTrail, lastAdded, extractLog>>

Next ==
    \/ FetchIndex
    \/ FetchPage
    \/ SectionStart
    \/ TimerFires
    \/ AiResponds
    \/ \E i \in DOMAIN results : SettlePage(i)
    \/ Gather
    \/ WriteOutput

Spec == RunInit /\ [][Next]_vars

----------------------------------------------------------------------------
(* Claims about the run *)

Done == pc = "done"

\* the records of seq whose version is / is not the version b, whatever the case
OfVersion(seq, b) == LET Is(e) == toLowerCase(e.version) = b IN SelectSeq(seq, Is)
NotOfVersion(seq, b) == LET Isnt(e) == toLowerCase(e.version) # b IN SelectSeq(seq, Isnt)

ScopedOverParsed ==
    Done /\ ONLY_VERSION # "" /\ priorFile.exists /\ priorFile.parses

\* C2: a scoped run targeting B over a persisted collection writes a collection in
\* which the records of every other version are the same records in the same
\* relative order, and the records of B are the entries this run computed.
C2_ScopedMerge ==
    ScopedOverParsed =>
        /\ NotOfVersion(outFile.content, ONLY_VERSION)
               = NotOfVersion(priorFile.content, ONLY_VERSION)
        /\ OfVersion(outFile.content, ONLY_VERSION) = allEntries

\* a scoped run on r32 that recomputed entries over a collection with other versions
C2_Witness ==
    /\ ScopedOverParsed /\ ONLY_VERSION = "r32"
    /\ allEntries # <<>>
    /\ Len(NotOfVersion(priorFile.content, "r32")) >= 2
    /\ Len(OfVersion(priorFile.content, "r32")) >= 1

\* two extractions of the same content, the later one at j
SameContent(i, j) ==
    /\ i \in DOMAIN extractLog /\ j \in DOMAIN extractLog /\ i < j
    /\ extractLog[i].key = extractLog[j].key

CallsFor(key) == Cardinality({k \in DOMAIN extractLog :
                                 extractLog[k].key = key /\ extractLog[k].called})

ResultFields == {"build", "starter_build", "released", "entries"}

Components(v) ==
    CASE v \in {"r32", "R32"} -> <<32>>
      [] v = "r32.1"   -> <<32, 1>>
      [] v = "r32.1.2" -> <<32, 1, 2>>
      [] v = "r320"    -> <<320>>
      [] v = "r31"     -> <<31>>
      [] v = "r3"      -> <<3>>
      [] v = "r9"      -> <<9>>
      [] OTHER         -> <<>>

\* v is the filter, or extends it by dotted components
PrefixMatch(filter, v) ==
    /\ Len(Components(filter)) <= Len(Components(v))
    /\ SubSeq(Components(v), 1, Len(Components(filter))) = Components(filter)

\* C4 (as claimed): on a scoped run the filter matches a version when the version
\* is the filter or extends it by dotted components, for removing the records of
\* the persisted collection and for selecting the sections to recompute.
C4_AsClaimed ==
    (Done /\ ONLY_VERSION # "") =>
        /\ (priorFile.exists /\ priorFile.parses) =>
             LET Unmatched(e) == ~PrefixMatch(ONLY_VERSION, e.version)
             IN  outFile.content = SelectSeq(priorFile.content, Unmatched) \o allEntries
        /\ USE_AI =>
             \A v \in DOMAIN debugFiles :
                 PrefixMatch(ONLY_VERSION, v)
                     <=> \E k \in DOMAIN extractLog : extractLog[k].version = v

IsPatternEntry(e) == "build" \notin DOMAIN e

\* an entry with no ticket ids after an entry with ticket ids of its version and
\* category, both from the pattern-based extractor
UnmergedOrphan(seq) ==
    \E i, j \in DOMAIN seq :
        /\ i < j
        /\ IsPatternEntry(seq[i]) /\ IsPatternEntry(seq[j])
        /\ seq[j].dsof = <<>> /\ seq[i].dsof # <<>>
        /\ seq[i].version = seq[j].version /\ seq[i].category = seq[j].category
        /\ seq[i].url = seq[j].url

\* C5 (as claimed): whenever entries come from the pattern-based extractor, with
\* structured extraction disabled or failed for the section, every entry with no
\* ticket ids is merged into the nearest preceding entry with ticket ids of the
\* same version and category.
C5_AsClaimed == ~UnmergedOrphan(allEntries)

Change(e) == [ticket_ids |-> e.dsof, category |-> e.category, description |-> e.description]

ChangesOf(seq) == [i \in DOMAIN seq |-> Change(seq[i])]

\* the page of the end-to-end scenario was parsed on the regex path, unfiltered
E2EParsed(i) ==
    /\ i \in DOMAIN results
    /\ results[i].status = "fulfilled" /\ results[i].doc = DocE2E
    /\ ONLY_VERSION = ""

\* C6 (as claimed): the scenario page yields two changes for r32.1: the ticketed
\* one with description "crash on load", then "Improved startup time".
C6_AsClaimed ==
    \A i \in DOMAIN results : E2EParsed(i) =>
        /\ \A k \in DOMAIN results[i].entries : results[i].entries[k].version = "r32.1"
        /\ ChangesOf(results[i].entries) =
             << [ticket_ids |-> <<"DSOF-100">>, category |-> <<"Bug Fixes">>,
                 description |-> <<"crash on load">>],
                [ticket_ids |-> <<>>, category |-> <<"Bug Fixes">>,
                 description |-> <<"Improved startup time">>] >>

\* C6 (amended): the scenario page yields one change for r32.1: the second item,
\* having no ticket id, is merged into the first, and only the ticket id and the
\* separators at the ends are removed from the first item's text.
C6_EndToEnd ==
    \A i \in DOMAIN results : E2EParsed(i) =>
        /\ \A k \in DOMAIN results[i].entries : results[i].entries[k].version = "r32.1"
        /\ ChangesOf(results[i].entries) =
             << [ticket_ids |-> <<"DSOF-100">>, category |-> <<"Bug Fixes">>,
                 description |-> <<"Fixed", " ", ":", " ", "crash on load", "\n",
                                   "Improved startup time">>] >>

C6_Witness == \E i \in DOMAIN results : E2EParsed(i) /\ Len(results[i].entries) = 1

Along(tail) == <<"PENDING", "CACHE_CHECK">> \o tail \o <<"DONE">>

SectionPaths ==
    { Along(<<"CACHE_HIT">>),
      Along(<<"RATE_LIMITED", "CALLING", "SUCCESS">>),
      Along(<<"RATE_LIMITED", "CALLING", "FALLBACK">>) }

\* C7 (as claimed): a failed call for a section leaves that section with the
\* entries of the pattern-based extractor only, and every section reaches DONE
\* along PENDING, CACHE_CHECK, then CACHE_HIT, or RATE_LIMITED, CALLING and either
\* SUCCESS or FALLBACK.
C7_AsClaimed ==
    /\ lastTrail # <<>> => lastTrail \in SectionPaths
    /\ (\E k \in DOMAIN lastTrail : lastTrail[k] = "FALLBACK")
         => \A k \in DOMAIN lastAdded : IsPatternEntry(lastAdded[k])

Versions(seq) == {seq[k].version : k \in DOMAIN seq}

FullRunDone == Done /\ ONLY_VERSION = ""

NoTokenNoFlag == ~AI_TOKEN /\ ~NO_AI

\* C9 (as claimed): with no token and no --no-ai the process stops before any page
\* is fetched, any section is extracted or any file is written.
C9_AsClaimed ==
    NoTokenNoFlag =>
        /\ fetched = 0 /\ ~outFile.exists /\ debugFiles = <<>>
        /\ pc \in {"main", "exit1"}

\* C9 (amended): with no token and no --no-ai the program prints a warning and
\* runs on the pattern-based extractor: it never calls the service, and it fetches
\* the pages and writes the output.
C9_WarnAndFallBack ==
    NoTokenNoFlag =>
        /\ warned
        /\ aiCalls = 0 /\ inFlight = 0 /\ extractLog = <<>>
        /\ pc \in {"main", "exit1", "parallel", "write", "done"}
        /\ Done => /\ outFile.exists
                   /\ \A k \in DOMAIN allEntries : IsPatternEntry(allEntries[k])

C9_Witness ==
    /\ NoTokenNoFlag /\ Done /\ fetched > 1
    /\ outFile.exists /\ outFile.content # <<>>

\* C10: two consecutive external calls are at least the minimum interval apart on
\* the last-call timestamp, and at most one external call is in flight.
C10_RateLimit ==
    /\ inFlight <= 1
    /\ (pc = "calling") <=> (inFlight = 1)
    /\ aiCalls >= 2 => lastAiCall - prevAiCall >= MinInterval

\* a second call that had to wait for the rest of the interval
C10_Witness ==
    /\ aiCalls >= 2 /\ inFlight = 1
    /\ lastAiCall - prevAiCall = MinInterval

----------------------------------------------------------------------------
(* Forced refresh *)

\* the step finished an extraction: its record is the last of the log
Extracted == Len(extractLog') = Len(extractLog) + 1

LastExtract == extractLog'[Len(extractLog')]

\* C11: with the force flag set, every extraction goes to the external service,
\* cached or not; no step removes a cache record; a record changes only in the
\* step of a successful call for its hash, which writes the new result under it;
\* a call that fails leaves the whole cache as it was.
C11_ForcedRefresh ==
    [][FORCE =>
        /\ \A k \in DOMAIN aiCache : k \in DOMAIN aiCache'
        /\ \A k \in DOMAIN aiCache :
              aiCache'[k] # aiCache[k] =>
                  Extracted /\ LastExtract.key = k /\ ~LastExtract.threw
        /\ Extracted =>
              /\ LastExtract.called
              /\ LastExtract.threw => aiCache' = aiCache
              /\ ~LastExtract.threw =>
                    /\ LastExtract.key \in DOMAIN aiCache'
                    /\ aiCache'[LastExtract.key] =
                           CacheRecord(LastExtract.version, LastExtract.result)
      ]_vars

\* forced run: a call for a cached hash failed and the record is still the one
\* of the earlier run, and a call for a cached hash succeeded and replaced it
C11_Witness ==
    /\ FORCE
    /\ Len(extractLog) = 2
    /\ extractLog[1].key \in DOMAIN EarlierCache
    /\ extractLog[2].key = extractLog[1].key
    /\ extractLog[1].called /\ extractLog[1].threw
    /\ extractLog[2].called /\ ~extractLog[2].threw
    /\ aiCache[extractLog[2].key] = CacheRecord("r32", BrokenResult)
    /\ aiCache[extractLog[2].key] # EarlierCache[extractLog[2].key]

----------------------------------------------------------------------------
(* One extractor per section *)

\* the records of one section of a page: its version under its url
SameSection(e, f) == e.version = f.version /\ e.url = f.url

\* C15 (as claimed): in structured-extraction mode the records of one section in
\* the output are all from the service or cache result, or all from the
\* pattern-based fallback, never some of each.
C15_AsClaimed ==
    (Done /\ USE_AI) =>
        \A i, j \in DOMAIN outFile.content :
            SameSection(outFile.content[i], outFile.content[j])
                => (IsPatternEntry(outFile.content[i])
                        <=> IsPatternEntry(outFile.content[j]))

----------------------------------------------------------------------------
(* Claims about the segmenter *)

\* the version token of a version heading, "" for any other part
HeadingVersion(part) ==
    LET rawText == PlainText(part.text)
        vAt     == IndexFrom(rawText, 1, VersionTokens)
    IN  IF part.head = "h2" /\ vAt # 0 THEN rawText[vAt] ELSE ""

\* the positions of the version headings carrying the token v
HeadingsOf(v) == {i \in DOMAIN pageParts : HeadingVersion(pageParts[i]) = v}

\* the version heading that governs part i: the last one at or before i, 0 if none
Governing(i) ==
    SetMax({0} \cup {j \in 1..i : HeadingVersion(pageParts[j]) # ""})

\* the parts under the headings carrying v, in document order
UnderVersion(v) ==
    LET idx == {i \in DOMAIN pageParts :
                    Governing(i) # 0 /\ HeadingVersion(pageParts[Governing(i)]) = v}
        Under(i) == i \in idx
    IN  SelectSeq([i \in DOMAIN pageParts |-> i], Under)

\* the Sections opened by a version heading carrying v
SectionsOfHeading(v) ==
    LET Opened(sec) == sec.version = v /\ sec.html # <<>>
                       /\ HeadingVersion(sec.html[1]) = v
    IN  SelectSeq(seg.versionSections, Opened)

\* C12 (as claimed): the version headings of a document that carry the same
\* version token give one Section for that version; its content is the content
\* under all those headings, in order, and its anchor is that of the last of them.
C12_AsClaimed ==
    \A i \in DOMAIN pageParts :
        LET v == HeadingVersion(pageParts[i]) IN
        v # "" =>
            /\ Len(SectionsOfHeading(v)) = 1
            /\ SectionsOfHeading(v)[1].anchor = pageParts[SetMax(HeadingsOf(v))].id
            /\ SectionsOfHeading(v)[1].html
                   = [k \in DOMAIN UnderVersion(v) |-> pageParts[UnderVersion(v)[k]]]

\* no part read so far is a version heading
NoVersionHeading == \A i \in DOMAIN pageParts : HeadingVersion(pageParts[i]) = ""

\* sec holds the part among the markup it accumulated
HoldsPart(sec, part) == \E k \in DOMAIN sec.html : sec.html[k] = part

\* C13 (as claimed): list content before the first version heading, with or
\* without a category heading before it, is attributed to the page-level version
\* derived from the page path: its entries carry that version and it belongs to
\* a Section of that version.
C13_AsClaimed ==
    NoVersionHeading =>
        /\ \A k \in DOMAIN seg.entries :
               seg.entries[k].version = PageVersionOf(docPath)
        /\ \A i \in DOMAIN pageParts :
               HasListContent(pageParts[i].body) =>
                   \E s \in DOMAIN seg.versionSections :
                       /\ seg.versionSections[s].version = PageVersionOf(docPath)
                       /\ HoldsPart(seg.versionSections[s], pageParts[i])

----------------------------------------------------------------------------
(* Claims about the paragraphs of the Pattern-Based Entry Extractor *)

RECURSIVE WithoutParagraphs(_)
\* the markup with its paragraph blocks taken out
WithoutParagraphs(body) ==
    LET at == IndexFrom(body, 1, {"<p>"})
        to == IF at = 0 THEN 0 ELSE IndexFrom(body, at + 1, {"</p>"})
    IN  IF at = 0 \/ to = 0 THEN body
        ELSE SubSeq(body, 1, at - 1) \o WithoutParagraphs(SubSeq(body, to + 1, Len(body)))

\* the body ends with a paragraph block, its only one
EndsWithParagraph(body) ==
    /\ body # <<>> /\ body[Len(body)] = "</p>"
    /\ IndexFrom(body, 1, {"<p>"}) # 0
    /\ IndexFrom(body, 1, {"</p>"}) = Len(body)

\* the text of that paragraph
LastParagraphText(body) ==
    PlainText(SubSeq(body, IndexFrom(body, 1, {"<p>"}) + 1, Len(body) - 1))

\* the entries with text appended, after a newline, to the description of the last
Continued(entries, text) ==
    [entries EXCEPT ![Len(entries)].description = @ \o <<"\n">> \o text]

\* the part read last
NewPart == pageParts[Len(pageParts)]

\* the entries the lists before the paragraph leave
BeforeParagraph ==
    extractWithRegex(WithoutParagraphs(NewPart.body), seg.currentVersion,
                     seg.currentCategory, UrlOf(docPath, seg.currentAnchor),
                     segBefore.entries)

\* C14: in the pattern-based extractor a paragraph block never creates an entry:
\* a part yields as many entries with its paragraphs as without them.  The text of
\* a paragraph whose previous entry is of the same version and category is appended,
\* after a newline, to the description of that entry and no other entry changes; a
\* paragraph with no entry before it, or whose previous entry is of another version
\* or category, or with no text, changes no entry.
C14_ParagraphContinuation ==
    pageParts # <<>> =>
       LET prev  == BeforeParagraph
           text  == LastParagraphText(NewPart.body)
       IN  /\ Len(seg.entries) = Len(prev)
           /\ EndsWithParagraph(NewPart.body) =>
                 IF /\ prev # <<>>
                    /\ prev[Len(prev)].version = seg.currentVersion
                    /\ prev[Len(prev)].category = seg.currentCategory
                    /\ text # <<>>
                 THEN seg.entries = Continued(prev, text)
                 ELSE seg.entries = prev

\* a paragraph in a part of its own continued the entry of an earlier part, and
\* the entry before that one is as the list left it
C14_Witness ==
    /\ Len(pageParts) >= 2
    /\ pageParts[Len(pageParts)].body = ParaMore
    /\ Len(seg.entries) = 2
    /\ seg.entries[1].description = <<"x">>
    /\ seg.entries[2].description = <<"y", "\n", "more", " ", "&", " ", "more">>

====
